---- MODULE Spec2Model ----
(***************************************************************************)
(* A model of SAASH's neighbor grid (SAASH/util/neighborgrid.py) and of    *)
(* its cluster bookkeeping (src/body/cluster.py).                          *)
(*                                                                         *)
(* Numbers: positions, domain limits and the interaction range R are       *)
(* integers here, and every quotient the code forms in floating point is   *)
(* kept as an exact fraction (boxSize[i] is the pair num/den), so a cell   *)
(* index is the exact floor the code's float expression rounds to.         *)
(***************************************************************************)
EXTENDS Integers, Sequences, FiniteSets, TLC

(***************************************************************************)
(* Bounds of the model.                                                    *)
(***************************************************************************)
\* the longest body list handed to Neighborgrid.update
MaxBodies == 2
\* the largest domain size of an axis of a one-dimensional grid
MaxSize == 3
\* the largest interaction range
MaxR == 3
\* the largest frame number handed to a ClusterInfo
MaxFrame == 2
\* the most monomer-gain and monomer-loss events logged, taken together
MaxLog == 1
\* the most bodies of a bond dictionary
MaxN == 3
\* the number of bodies the clusters draw their members from
MaxMembers == 3
\* the highest cluster ID handed to Cluster.set_cluster_id
MaxId == 1

VARIABLES
    \* ---- Neighborgrid ----
    gridState,   \* "none" before __init__, "ok" once constructed, "error" if __init__ raised
    lim,         \* self.lim: per axis <<min, max>>
    periodic,    \* self.periodic: per axis flag (stored, never read by the grid)
    R,           \* self.R
    numD,        \* self.numD: per axis cell count
    boxSize,     \* self.boxSize: per axis the fraction [num, den] = domain_size / numD
    shift,       \* self.shift: per axis -min
    map,         \* self.map: cell key -> list of bodies (bodies are indices into `bodies`)
    bodies,      \* the body list of the latest update call: positions by body
    updateErr,   \* whether the latest update call raised ValueError
    refilled,    \* history: whether the map held bodies when the latest update call began
    hoodOf,      \* the body of the latest getNeighborhood call (0: none yet)
    hood,        \* the list the latest getNeighborhood call returned
    hoodErr,     \* whether the latest getNeighborhood call raised ValueError
    \* ---- Observer ----
    observable_set,  \* Observer.__observable_set
    \* ---- ClusterInfo ----
    infoState,     \* "none" before __init__, "ok" once constructed, "error" if __init__ raised
    birth_frame,   \* self.__birth_frame
    death_frame,   \* self.__death_frame
    last_updated,  \* self.__last_updated
    lifetime,      \* self.__lifetime
    is_dead,       \* self.__is_dead
    has_parent,    \* self.__has_parent
    stored_data,   \* self.__stored_data: list of snapshots
    from_monomer,  \* self.__from_monomer: list of <<snapshot, num_monomers>>
    to_monomer,    \* self.__to_monomer: list of <<snapshot, num_monomers>>
    lastOp,        \* the latest ClusterInfo method called
    raised,        \* whether that call ended in an error
    passedMax,     \* history: the highest frame number update_data has recorded while alive
    passedCount,   \* history: how many times update_data was passed, while alive, a frame
                   \* number above every one passed before (the construction frame counts)
    \* ---- get_groups ----
    groupState,    \* "idle" before the call, "loop" inside the while loop, "done" once G is
                   \* returned, "error" if the call raised IndexError
    bond_dict,     \* the argument: the adjacency list of ID i is bond_dict[i + 1]
    to_group,      \* to_group: the group number of ID i is to_group[i + 1]
    G,             \* G: the list of groups; group number g is G[g + 1]
    queue,         \* queue
    searched,      \* searched
    \* ---- Cluster and the Body fields it writes ----
    clusterState,     \* per Cluster object: "none" before __init__, "ok" once constructed
    c_bodies,         \* per Cluster object: self.__bodies, a list of bodies
    cluster_index,    \* per Cluster object: self.__cluster_index
    c_last_updated,   \* per Cluster object: self.__last_updated
    body_cluster,     \* per body: its back-reference to a Cluster object (0: None)
    body_cluster_id,  \* per body: the cluster ID it carries
    lastCl            \* the latest Cluster method called: <<name, self, argument>>, and
                      \* for steal_id the ID the victim held before the call

gridVars == <<gridState, lim, periodic, R, numD, boxSize, shift, map, bodies,
              updateErr, refilled, hoodOf, hood, hoodErr>>

infoVars == <<observable_set, infoState, birth_frame, death_frame, last_updated, lifetime,
              is_dead, has_parent, stored_data, from_monomer, to_monomer, lastOp, raised,
              passedMax, passedCount>>

groupVars == <<groupState, bond_dict, to_group, G, queue, searched>>

clusterVars == <<clusterState, c_bodies, cluster_index, c_last_updated, body_cluster,
                 body_cluster_id, lastCl>>

vars == <<gridVars, infoVars, groupVars, clusterVars>>

\* what a step of one component leaves alone
gridOnly == UNCHANGED <<infoVars, groupVars, clusterVars>>
infoOnly == UNCHANGED <<gridVars, groupVars, clusterVars>>
groupOnly == UNCHANGED <<gridVars, infoVars, clusterVars>>
clusterOnly == UNCHANGED <<gridVars, infoVars, groupVars>>

(***************************************************************************)
(* Arithmetic helpers.                                                     *)
(***************************************************************************)
Abs(x) == IF x < 0 THEN -x ELSE x

\* np.floor(a / b) for integers a, b with b # 0
Floor(a, b) ==
    IF b > 0
    THEN (IF a >= 0 THEN a \div b ELSE -(((-a) + b - 1) \div b))
    ELSE (IF a <= 0 THEN (-a) \div (-b) ELSE -((a + (-b) - 1) \div (-b)))

\* all sequences over S of length 0..n
RECURSIVE SeqsUpTo(_, _)
SeqsUpTo(S, n) ==
    IF n = 0 THEN {<<>>}
    ELSE LET shorter == SeqsUpTo(S, n - 1)
         IN shorter \cup {Append(s, x) : s \in {t \in shorter : Len(t) = n - 1}, x \in S}

\* all sequences over S of length exactly n
SeqsOfLen(S, n) == {s \in SeqsUpTo(S, n) : Len(s) = n}

\* the elements of a sequence
Range(s) == {s[i] : i \in 1..Len(s)}

(***************************************************************************)
(* Neighborgrid.__init__                                                   *)
(***************************************************************************)
\* self.domain_size = self.lim[:,1] - self.lim[:,0]
domain_size(l) == [i \in 1..Len(l) |-> l[i][2] - l[i][1]]

\* self.numD[i] = np.floor(self.domain_size[i] / (self.R/2))
NumDOf(l, r) == [i \in 1..Len(l) |-> Floor(2 * domain_size(l)[i], r)]

\* self.boxSize[i] = self.domain_size[i] / self.numD[i]; den = 0 is numpy's inf or nan
BoxSizeOf(l, r) == [i \in 1..Len(l) |-> [num |-> domain_size(l)[i], den |-> NumDOf(l, r)[i]]]

\* self.shift.append(-lim[i][0])
ShiftOf(l) == [i \in 1..Len(l) |-> -l[i][1]]

\* R = 0 makes domain_size / (R/2) inf or nan, and storing that in the integer
\* array numD raises (OverflowError or ValueError); nothing else in __init__ raises
InitRaises(l, r) == r = 0

\* the arguments __init__ is called with in this model
\* (one-dimensional grids of every size and range within the bounds, with a
\* minimum other than 0, and one two-dimensional grid)
Lims1D == {<< <<-1, s - 1>> >> : s \in (-1)..MaxSize}
Lims2D == {<< <<0, 1>>, <<-1, 0>> >>}
Ranges(l) == IF Len(l) = 1 THEN (-1)..MaxR ELSE {1}
Periodics(l) == IF Len(l) = 1 THEN {<<TRUE>>, <<FALSE>>} ELSE {<<TRUE, FALSE>>, <<FALSE, TRUE>>}

\* a grid whose cells the exact arithmetic of this model can index: every axis has
\* at least one cell and a positive range (the others hold inf, nan or negative sizes)
WellFormed == gridState = "ok" /\ R > 0 /\ \A i \in 1..Len(lim) : numD[i] >= 1

Construct(l, r, p) ==
    /\ gridState = "none"
    /\ IF InitRaises(l, r)
       THEN /\ gridState' = "error"
            /\ UNCHANGED <<lim, periodic, R, numD, boxSize, shift, map>>
       ELSE /\ gridState' = "ok"
            /\ lim' = l
            /\ periodic' = p
            /\ R' = r
            /\ numD' = NumDOf(l, r)
            /\ boxSize' = BoxSizeOf(l, r)
            /\ map' = << >>
            /\ shift' = ShiftOf(l)
    /\ UNCHANGED <<bodies, updateErr, refilled, hoodOf, hood, hoodErr>>
    /\ gridOnly

(***************************************************************************)
(* Neighborgrid.convertPosToIndex                                          *)
(***************************************************************************)
\* a bounds test that takes the axis maximum itself for outside
OutOfBoundsAtMax(position) ==
    \/ \E i \in 1..Len(lim) : position[i] < lim[i][1]
    \/ \E i \in 1..Len(lim) : position[i] >= lim[i][2]

\* (position < self.lim[:,0]).any() or (position > self.lim[:,1]).any()
OutOfBounds(position) ==
    \/ \E i \in 1..Len(lim) : position[i] < lim[i][1]
    \/ \E i \in 1..Len(lim) : position[i] > lim[i][2]

\* ((position + self.shift) / self.boxSize).astype(int), as a tuple
convertPosToIndex(position) ==
    [i \in 1..Len(lim) |->
        ((position[i] + shift[i]) * boxSize[i].den) \div boxSize[i].num]

(***************************************************************************)
(* Neighborgrid.addItemToMap and Neighborgrid.update                       *)
(***************************************************************************)
addItemToMap(m, key, value) ==
    IF key \in DOMAIN m
    THEN [m EXCEPT ![key] = Append(@, value)]
    ELSE [k \in DOMAIN m \cup {key} |-> IF k = key THEN <<value>> ELSE m[k]]

\* the loop of update from body i on: the map built, and whether a body raised
RECURSIVE FillMap(_, _, _)
FillMap(bs, i, m) ==
    IF i > Len(bs) THEN [map |-> m, err |-> FALSE]
    ELSE IF OutOfBounds(bs[i]) THEN [map |-> m, err |-> TRUE]
    ELSE FillMap(bs, i + 1, addItemToMap(m, convertPosToIndex(bs[i]), i))

\* the positions a body handed to the grid may have: the lattice points of the
\* domain, the point one step below the minimum corner on the first axis and the
\* point one step above the maximum corner on the last axis
Coords(i) == lim[i][1]..lim[i][2]
Lattice == {p \in SeqsOfLen(UNION {Coords(i) : i \in 1..Len(lim)}, Len(lim)) :
                \A i \in 1..Len(lim) : p[i] \in Coords(i)}
Below == [i \in 1..Len(lim) |-> IF i = 1 THEN lim[i][1] - 1 ELSE lim[i][1]]
Above == [i \in 1..Len(lim) |-> IF i = Len(lim) THEN lim[i][2] + 1 ELSE lim[i][2]]
Positions == Lattice \cup {Below, Above}
BodyLists == SeqsUpTo(Positions, MaxBodies)

\* an update that keeps the cells of the previous call
keep(m) == m

\* self.map.clear()
clear(m) == << >>

Update(bs) ==
    /\ WellFormed
    /\ \E r \in {FillMap(bs, 1, clear(map))} :
          /\ map' = r.map
          /\ updateErr' = r.err
    /\ refilled' = (map # << >>)
    /\ bodies' = bs
    /\ hoodOf' = 0
    /\ hood' = << >>
    /\ hoodErr' = FALSE
    /\ UNCHANGED <<gridState, lim, periodic, R, numD, boxSize, shift>>
    /\ gridOnly

(***************************************************************************)
(* Neighborgrid.AdjacentBoxes and Neighborgrid.getNeighborhood             *)
(***************************************************************************)
\* list(product([-2,-1,0,1,2], repeat=dim)): the last axis varies fastest
Offsets == <<-2, -1, 0, 1, 2>>
RECURSIVE indexAdjustment(_)
indexAdjustment(dim) ==
    IF dim = 0 THEN << << >> >>
    ELSE LET prev == indexAdjustment(dim - 1)
         IN [k \in 1..(Len(prev) * 5) |->
                Append(prev[((k - 1) \div 5) + 1], Offsets[((k - 1) % 5) + 1])]

\* neighborBox[i] = (centerBox[i] + boxAdjustment[i]) % self.numD[i]
AdjacentBoxes(centerBox) ==
    LET adj == indexAdjustment(Len(lim))
    IN [k \in 1..Len(adj) |->
          [i \in 1..Len(lim) |-> (centerBox[i] + adj[k][i]) % numD[i]]]

\* Body.distance_to_body(body, domain_size) < R: the minimum-image distance,
\* compared through its square
Delta(x0, x1, i) ==
    LET d == Abs(x0[i] - x1[i])
    IN IF 2 * d > domain_size(lim)[i] THEN d - domain_size(lim)[i] ELSE d

RECURSIVE SumSq(_, _, _)
SumSq(x0, x1, i) ==
    IF i = 0 THEN 0 ELSE Delta(x0, x1, i) * Delta(x0, x1, i) + SumSq(x0, x1, i - 1)

WithinR(b, bj) == SumSq(bodies[b], bodies[bj], Len(lim)) < R * R

\* the bodies of one cell that pass the two tests, in the cell's order
RECURSIVE FilterCell(_, _, _)
FilterCell(b, cell, j) ==
    IF j > Len(cell) THEN << >>
    ELSE (IF b # cell[j] /\ WithinR(b, cell[j]) THEN <<cell[j]>> ELSE << >>)
         \o FilterCell(b, cell, j + 1)

\* the loop over the adjacent boxes from box k on
RECURSIVE ScanBoxes(_, _, _)
ScanBoxes(b, boxes, k) ==
    IF k > Len(boxes) THEN << >>
    ELSE (IF boxes[k] \in DOMAIN map THEN FilterCell(b, map[boxes[k]], 1) ELSE << >>)
         \o ScanBoxes(b, boxes, k + 1)

getNeighborhood(b) == ScanBoxes(b, AdjacentBoxes(convertPosToIndex(bodies[b])), 1)

GetNeighborhood(b) ==
    /\ WellFormed
    /\ b \in 1..Len(bodies)
    /\ hoodOf' = b
    /\ IF OutOfBounds(bodies[b])
       THEN hoodErr' = TRUE /\ hood' = << >>
       ELSE hoodErr' = FALSE /\ hood' = getNeighborhood(b)
    /\ UNCHANGED <<gridState, lim, periodic, R, numD, boxSize, shift, map, bodies,
                   updateErr, refilled>>
    /\ gridOnly

(***************************************************************************)
(* The neighbor grid's specification.                                      *)
(***************************************************************************)
GridNext ==
    \/ \E l \in Lims1D \cup Lims2D : \E r \in Ranges(l) :
         \E p \in Periodics(l) : Construct(l, r, p)
    \/ WellFormed /\ \E bs \in BodyLists : Update(bs)
    \/ \E b \in 1..MaxBodies : GetNeighborhood(b)


(***************************************************************************)
(* Observer                                                                *)
(***************************************************************************)
\* the names handed to add_observable: the two __compute_coordinate knows and one
\* ("num_bonds", an example the file's header gives) it does not
ObservableNames == {"num_bodies", "positions", "num_bonds"}

\* Observer.add_observable
add_observable(observable) ==
    /\ observable_set' = observable_set \cup {observable}
    /\ UNCHANGED <<infoState, birth_frame, death_frame, last_updated, lifetime, is_dead,
                   has_parent, stored_data, from_monomer, to_monomer, lastOp, raised,
                   passedMax, passedCount>>
    /\ infoOnly

(***************************************************************************)
(* ClusterInfo.__compute_coordinate                                        *)
(* A snapshot (a dict) is a record: `keys` is the set of its keys, and the *)
(* field of a key holds << >> when the dict lacks the key and <<value>>     *)
(* when it has it.                                                         *)
(***************************************************************************)
\* a snapshot computation that skips the names it does not know
ComputeNeverRaises == FALSE

\* the loop reaches the else branch, whose raise of a string is a TypeError
ComputeRaises == \E obs \in observable_set : obs # "num_bodies" /\ obs # "positions"

compute_coordinate(cluster) ==
    [keys             |-> observable_set,
     num_bodies       |-> IF "num_bodies" \in observable_set THEN <<Len(cluster)>> ELSE << >>,
     positions        |-> IF "positions" \in observable_set THEN <<cluster>> ELSE << >>,
     monomer_fraction |-> << >>]

\* d['monomer_fraction'] = monomer_frac
SetFraction(d, monomer_frac) ==
    [d EXCEPT !.keys = @ \cup {"monomer_fraction"}, !.monomer_fraction = <<monomer_frac>>]

(***************************************************************************)
(* ClusterInfo                                                             *)
(***************************************************************************)
\* the arguments of the calls: a cluster is the list of its bodies' positions
Clusters == {<<1, 2>>, <<1, 2, 3>>}
Frames == 0..MaxFrame
MonomerFracs == {0}
MonomerCounts == {1}

\* ClusterInfo.__init__: the fields, then update_data(cluster, frame_num, monomer_frac)
NewClusterInfo(cluster, frame_num, monomer_frac) ==
    /\ infoState = "none"
    /\ lastOp' = "init"
    /\ IF frame_num > -1 /\ ComputeRaises
       THEN /\ infoState' = "error"
            /\ raised' = TRUE
            /\ UNCHANGED <<birth_frame, death_frame, last_updated, lifetime, is_dead,
                           has_parent, stored_data, from_monomer, to_monomer,
                           passedMax, passedCount>>
       ELSE /\ infoState' = "ok"
            /\ raised' = FALSE
            /\ birth_frame' = frame_num
            /\ death_frame' = -1
            /\ lifetime' = -1
            /\ is_dead' = FALSE
            /\ has_parent' = FALSE
            /\ IF frame_num > -1
               THEN /\ stored_data' = <<SetFraction(compute_coordinate(cluster), monomer_frac)>>
                    /\ last_updated' = frame_num
               ELSE /\ stored_data' = << >>
                    /\ last_updated' = -1
            /\ from_monomer' = << >>
            /\ to_monomer' = << >>
            /\ passedMax' = frame_num
            /\ passedCount' = 1
    /\ UNCHANGED observable_set
    /\ infoOnly

\* a set_parent that never looks at has_parent
set_parentEveryTime(cluster) ==
    /\ infoState = "ok"
    /\ lastOp' = "set_parent"
    /\ IF ComputeRaises
       THEN /\ raised' = TRUE
            /\ UNCHANGED <<stored_data, has_parent>>
       ELSE /\ raised' = FALSE
            /\ stored_data' = <<compute_coordinate(cluster)>> \o stored_data
            /\ has_parent' = TRUE
    /\ UNCHANGED <<observable_set, infoState, birth_frame, death_frame, last_updated,
                   lifetime, is_dead, from_monomer, to_monomer, passedMax, passedCount>>
    /\ infoOnly

\* ClusterInfo.set_parent
set_parent(cluster) ==
    /\ infoState = "ok"
    /\ lastOp' = "set_parent"
    /\ IF ~has_parent
       THEN IF ComputeRaises
            THEN /\ raised' = TRUE
                 /\ UNCHANGED <<stored_data, has_parent>>
            ELSE /\ raised' = FALSE
                 /\ stored_data' = <<compute_coordinate(cluster)>> \o stored_data
                 /\ has_parent' = TRUE
       ELSE /\ raised' = FALSE
            /\ UNCHANGED <<stored_data, has_parent>>
    /\ UNCHANGED <<observable_set, infoState, birth_frame, death_frame, last_updated,
                   lifetime, is_dead, from_monomer, to_monomer, passedMax, passedCount>>
    /\ infoOnly

\* ClusterInfo.kill, with __set_lifetime
kill(frame_num) ==
    /\ infoState = "ok"
    /\ lastOp' = "kill"
    /\ raised' = FALSE
    /\ death_frame' = frame_num
    /\ lifetime' = frame_num - birth_frame
    /\ is_dead' = TRUE
    /\ UNCHANGED <<observable_set, infoState, birth_frame, last_updated, has_parent,
                   stored_data, from_monomer, to_monomer, passedMax, passedCount>>
    /\ infoOnly

\* the test of update_data without its is_dead half
ShouldRecordWhenDead(frame_num) == frame_num > last_updated

\* the test of update_data with >= for >
ShouldRecordSameFrame(frame_num) == frame_num >= last_updated /\ ~is_dead

\* the test of update_data: frame_num > self.__last_updated and not self.__is_dead
ShouldRecord(frame_num) == frame_num > last_updated /\ ~is_dead

\* ClusterInfo.update_data
update_data(cluster, frame_num, monomer_frac) ==
    /\ infoState = "ok"
    /\ lastOp' = "update_data"
    /\ IF ShouldRecord(frame_num)
       THEN IF ComputeRaises
            THEN /\ raised' = TRUE
                 /\ UNCHANGED <<stored_data, last_updated>>
            ELSE /\ raised' = FALSE
                 /\ stored_data' = Append(stored_data,
                                          SetFraction(compute_coordinate(cluster), monomer_frac))
                 /\ last_updated' = frame_num
       ELSE /\ raised' = FALSE
            /\ UNCHANGED <<stored_data, last_updated>>
    \* history: a call on a live record that returns, with a frame number above every
    \* one passed so far
    /\ IF ~is_dead /\ ~ComputeRaises /\ frame_num > passedMax
       THEN passedMax' = frame_num /\ passedCount' = passedCount + 1
       ELSE UNCHANGED <<passedMax, passedCount>>
    /\ UNCHANGED <<observable_set, infoState, birth_frame, death_frame, lifetime, is_dead,
                   has_parent, from_monomer, to_monomer>>
    /\ infoOnly

\* ClusterInfo.add_monomers
add_monomers(cluster, num_monomers, monomer_frac) ==
    /\ infoState = "ok"
    /\ Len(from_monomer) + Len(to_monomer) < MaxLog
    /\ lastOp' = "add_monomers"
    /\ IF ComputeRaises
       THEN /\ raised' = TRUE
            /\ UNCHANGED from_monomer
       ELSE /\ raised' = FALSE
            /\ from_monomer' = Append(from_monomer,
                  <<SetFraction(compute_coordinate(cluster), monomer_frac), num_monomers>>)
    /\ UNCHANGED <<observable_set, infoState, birth_frame, death_frame, last_updated,
                   lifetime, is_dead, has_parent, stored_data, to_monomer,
                   passedMax, passedCount>>
    /\ infoOnly

\* ClusterInfo.remove_monomers
remove_monomers(cluster, num_monomers) ==
    /\ infoState = "ok"
    /\ Len(from_monomer) + Len(to_monomer) < MaxLog
    /\ lastOp' = "remove_monomers"
    /\ IF ComputeRaises
       THEN /\ raised' = TRUE
            /\ UNCHANGED to_monomer
       ELSE /\ raised' = FALSE
            /\ to_monomer' = Append(to_monomer, <<compute_coordinate(cluster), num_monomers>>)
    /\ UNCHANGED <<observable_set, infoState, birth_frame, death_frame, last_updated,
                   lifetime, is_dead, has_parent, stored_data, from_monomer,
                   passedMax, passedCount>>
    /\ infoOnly

\* the getters
get_data == stored_data
get_monomer_gain_data == from_monomer
get_monomer_loss_data == to_monomer
get_lifetime == lifetime

(***************************************************************************)
(* The cluster record's specification.                                     *)
(***************************************************************************)
InfoNext ==
    \/ \E o \in ObservableNames : add_observable(o)
    \/ \E c \in Clusters, f \in Frames, m \in MonomerFracs : NewClusterInfo(c, f, m)
    \/ \E c \in Clusters : set_parent(c)
    \/ \E f \in Frames : kill(f)
    \/ \E c \in Clusters, f \in Frames, m \in MonomerFracs : update_data(c, f, m)
    \/ \E c \in Clusters, n \in MonomerCounts, m \in MonomerFracs : add_monomers(c, n, m)
    \/ \E c \in Clusters, n \in MonomerCounts : remove_monomers(c, n)

(***************************************************************************)
(* get_groups                                                              *)
(***************************************************************************)
\* `x in lst`
In(x, lst) == \E k \in 1..Len(lst) : lst[k] = x

\* the adjacency loop of one dequeued body, from member k on; st holds G, to_group
\* and queue
RECURSIVE ScanAdj(_, _, _, _)
ScanAdj(adj_list, k, group_num, st) ==
    IF k > Len(adj_list) THEN st
    ELSE LET member == adj_list[k]
             fresh  == ~In(member, st.G[group_num + 1])
             G1     == IF fresh
                       THEN [st.G EXCEPT ![group_num + 1] = Append(@, member)]
                       ELSE st.G
             tg1    == IF fresh
                       THEN [st.to_group EXCEPT ![member + 1] = group_num]
                       ELSE st.to_group
             q1     == IF ~In(member, searched) /\ ~In(member, st.queue)
                       THEN Append(st.queue, member)
                       ELSE st.queue
         IN ScanAdj(adj_list, k + 1, group_num, [G |-> G1, to_group |-> tg1, queue |-> q1])

\* np.where(to_group == -1)[0]: the IDs with no group, ascending
Unassigned(tg) == {i \in 0..(Len(tg) - 1) : tg[i + 1] = -1}
\* the last ID with no group, where the code takes the first
Highest(S) == CHOOSE x \in S : \A y \in S : x >= y
\* ...[0][0]: the first of them
Lowest(S) == CHOOSE x \in S : \A y \in S : x <= y

\* lines 326-336: the set-up before the loop; to_group[0] = 0 raises IndexError on
\* an empty array
Call(bd) ==
    /\ groupState = "idle"
    /\ bond_dict' = bd
    /\ IF Len(bd) = 0
       THEN /\ groupState' = "error"
            /\ UNCHANGED <<to_group, G, queue, searched>>
       ELSE /\ groupState' = "loop"
            /\ to_group' = [i \in 1..Len(bd) |-> IF i = 1 THEN 0 ELSE -1]
            /\ G' = << <<0>> >>
            /\ queue' = <<0>>
            /\ searched' = << >>
    /\ groupOnly

\* lines 340-376: one pass of the while loop, and the return when the queue is empty
Step ==
    /\ groupState = "loop"
    /\ Len(queue) > 0
    /\ LET bod       == Head(queue)
           group_num == to_group[bod + 1]
           adj_list  == bond_dict[bod + 1]
       IN \E st \in {ScanAdj(adj_list, 1, group_num,
                             [G |-> G, to_group |-> to_group, queue |-> Tail(queue)])} :
            /\ searched' = Append(searched, bod)
            /\ IF Len(st.queue) = 0 /\ Len(searched) + 1 # Len(bond_dict)
               THEN IF Unassigned(st.to_group) = {}
                    \* np.where(...)[0][0] on an empty array raises IndexError
                    THEN /\ groupState' = "error"
                         /\ G' = st.G
                         /\ to_group' = st.to_group
                         /\ queue' = st.queue
                    ELSE LET unassigned == Lowest(Unassigned(st.to_group))
                         IN /\ groupState' = "loop"
                            /\ G' = Append(st.G, <<unassigned>>)
                            /\ to_group' = [st.to_group EXCEPT ![unassigned + 1] = Len(st.G)]
                            /\ queue' = Append(st.queue, unassigned)
               ELSE /\ groupState' = IF Len(st.queue) = 0 THEN "done" ELSE "loop"
                    /\ G' = st.G
                    /\ to_group' = st.to_group
                    /\ queue' = st.queue
    /\ UNCHANGED bond_dict
    /\ groupOnly

\* the bond dictionaries get_groups is called with: keys 0..n-1, a symmetric relation
\* (a body may list itself), every adjacency list ascending or every one descending
RECURSIVE Ascending(_)
Ascending(S) == IF S = {} THEN << >> ELSE <<Lowest(S)>> \o Ascending(S \ {Lowest(S)})
Reverse(sq) == [k \in 1..Len(sq) |-> sq[Len(sq) + 1 - k]]
Pairs(n) == {e \in (0..(n - 1)) \X (0..(n - 1)) : e[1] <= e[2]}
Bonded(E, i) == {j \in 0..MaxN : <<i, j>> \in E \/ <<j, i>> \in E}
BondDicts(n) ==
    {[i \in 1..n |-> Ascending(Bonded(E, i - 1))] : E \in SUBSET Pairs(n)}
    \cup {[i \in 1..n |-> Reverse(Ascending(Bonded(E, i - 1)))] : E \in SUBSET Pairs(n)}

GroupNext ==
    \/ groupState = "idle" /\ \E n \in 0..MaxN : \E bd \in BondDicts(n) : Call(bd)
    \/ Step

(***************************************************************************)
(* Cluster                                                                 *)
(* The Cluster objects are numbered 1..2 and the bodies 1..MaxMembers.      *)
(* The methods are written over a record st of the fields they read and    *)
(* write (cluster_index, body_cluster, body_cluster_id), so that steal_id  *)
(* can run set_cluster_id twice.                                           *)
(***************************************************************************)
ClusterRefs == {1, 2}
BodyIds == 1..MaxMembers
ClusterIds == (-1)..MaxId
ClusterFrames == {0, 1}

\* the body lists a Cluster is constructed with: one or two bodies, ascending
ClusterBodyLists ==
    {s \in SeqsUpTo(BodyIds, 2) : Len(s) >= 1 /\ \A i, j \in 1..Len(s) : i < j => s[i] < s[j]}

\* Body.set_cluster_id(cluster, c_id): the body keeps the reference and the ID
body_set_cluster_id(st, b, cluster, c_id) ==
    [st EXCEPT !.body_cluster[b] = cluster, !.body_cluster_id[b] = c_id]

\* a write-back that sets the ID on the bodies and leaves their reference alone
RECURSIVE update_bodiesIdOnly(_, _, _, _)
update_bodiesIdOnly(st, self, bs, k) ==
    IF k > Len(bs) THEN st
    ELSE update_bodiesIdOnly([st EXCEPT !.body_cluster_id[bs[k]] = st.cluster_index[self]],
                             self, bs, k + 1)

\* Cluster.__update_bodies: the loop over self.__bodies (bs) from body k on
RECURSIVE update_bodies(_, _, _, _)
update_bodies(st, self, bs, k) ==
    IF k > Len(bs) THEN st
    ELSE update_bodies(body_set_cluster_id(st, bs[k], self, st.cluster_index[self]),
                       self, bs, k + 1)

\* the fields the methods below work on
ClusterFields ==
    [cluster_index |-> cluster_index, body_cluster |-> body_cluster,
     body_cluster_id |-> body_cluster_id]

\* Cluster.set_cluster_id over the record
SetClusterId(st, self, c_id) ==
    update_bodies([st EXCEPT !.cluster_index[self] = c_id], self, c_bodies[self], 1)

\* Cluster.__init__
NewCluster(self, bs, frame_num) ==
    /\ clusterState[self] = "none"
    /\ clusterState' = [clusterState EXCEPT ![self] = "ok"]
    /\ c_bodies' = [c_bodies EXCEPT ![self] = bs]
    /\ cluster_index' = [cluster_index EXCEPT ![self] = -1]
    /\ c_last_updated' = [c_last_updated EXCEPT ![self] = frame_num]
    /\ lastCl' = <<"init", self, 0, -1>>
    /\ UNCHANGED <<body_cluster, body_cluster_id>>
    /\ clusterOnly

\* Cluster.set_cluster_id
set_cluster_id(self, c_id) ==
    /\ clusterState[self] = "ok"
    /\ \E st \in {SetClusterId(ClusterFields, self, c_id)} :
          /\ cluster_index' = st.cluster_index
          /\ body_cluster' = st.body_cluster
          /\ body_cluster_id' = st.body_cluster_id
    /\ lastCl' = <<"set_cluster_id", self, c_id, -1>>
    /\ UNCHANGED <<clusterState, c_bodies, c_last_updated>>
    /\ clusterOnly

\* Cluster.update
update(self, cluster) ==
    /\ clusterState[self] = "ok"
    /\ clusterState[cluster] = "ok"
    /\ c_bodies' = [c_bodies EXCEPT ![self] = c_bodies[cluster]]
    /\ \E st \in {update_bodies(ClusterFields, self, c_bodies[cluster], 1)} :
          /\ body_cluster' = st.body_cluster
          /\ body_cluster_id' = st.body_cluster_id
    /\ c_last_updated' = [c_last_updated EXCEPT ![self] = c_last_updated[cluster]]
    /\ lastCl' = <<"update", self, cluster, -1>>
    /\ UNCHANGED <<clusterState, cluster_index>>
    /\ clusterOnly

\* Cluster.steal_id
steal_id(self, victim) ==
    /\ clusterState[self] = "ok"
    /\ clusterState[victim] = "ok"
    /\ \E st \in {SetClusterId(SetClusterId(ClusterFields, self, cluster_index[victim]),
                                victim, -1)} :
          /\ cluster_index' = st.cluster_index
          /\ body_cluster' = st.body_cluster
          /\ body_cluster_id' = st.body_cluster_id
    /\ lastCl' = <<"steal_id", self, victim, cluster_index[victim]>>
    /\ UNCHANGED <<clusterState, c_bodies, c_last_updated>>
    /\ clusterOnly

ClusterNext ==
    \/ \E c \in ClusterRefs, bs \in ClusterBodyLists, f \in ClusterFrames : NewCluster(c, bs, f)
    \/ \E c \in ClusterRefs, id \in ClusterIds : set_cluster_id(c, id)
    \/ \E c, other \in ClusterRefs : update(c, other)
    \/ \E c, victim \in ClusterRefs : steal_id(c, victim)

(***************************************************************************)
(* The specifications: every component starts idle (nothing constructed,   *)
(* the observer configured with the two observables the code computes),    *)
(* and each specification runs one component.                              *)
(***************************************************************************)
Init ==
    /\ gridState = "none"
    /\ lim = << >>
    /\ periodic = << >>
    /\ R = 0
    /\ numD = << >>
    /\ boxSize = << >>
    /\ shift = << >>
    /\ map = << >>
    /\ bodies = << >>
    /\ updateErr = FALSE
    /\ refilled = FALSE
    /\ hoodOf = 0
    /\ hood = << >>
    /\ hoodErr = FALSE
    /\ observable_set = {"num_bodies", "positions"}
    /\ infoState = "none"
    /\ birth_frame = -1
    /\ death_frame = -1
    /\ last_updated = -1
    /\ lifetime = -1
    /\ is_dead = FALSE
    /\ has_parent = FALSE
    /\ stored_data = << >>
    /\ from_monomer = << >>
    /\ to_monomer = << >>
    /\ lastOp = "none"
    /\ raised = FALSE
    /\ passedMax = -1
    /\ passedCount = 0
    /\ groupState = "idle"
    /\ bond_dict = << >>
    /\ to_group = << >>
    /\ G = << >>
    /\ queue = << >>
    /\ searched = << >>
    /\ clusterState = [c \in ClusterRefs |-> "none"]
    /\ c_bodies = [c \in ClusterRefs |-> << >>]
    /\ cluster_index = [c \in ClusterRefs |-> -1]
    /\ c_last_updated = [c \in ClusterRefs |-> -1]
    /\ body_cluster = [b \in BodyIds |-> 0]
    /\ body_cluster_id = [b \in BodyIds |-> -1]
    /\ lastCl = <<"none", 0, 0, -1>>

GridSpec == Init /\ [][GridNext]_vars

InfoSpec == Init /\ [][InfoNext]_vars

GroupSpec == Init /\ [][GroupNext]_vars

ClusterSpec == Init /\ [][ClusterNext]_vars


(***************************************************************************)
(* Claims about the neighbor grid (checked under GridSpec).                *)
(***************************************************************************)
\* the brute-force scan: the other bodies of the frame at distance < R
BruteForce(b) == {bj \in 1..Len(bodies) : bj # b /\ WithinR(b, bj)}

\* a body with a coordinate strictly below the axis minimum or above the axis maximum
Outside(b) == \E i \in 1..Len(lim) : bodies[b][i] < lim[i][1] \/ bodies[b][i] > lim[i][2]

\* a body with a coordinate equal to the axis maximum
AtMax(b) == \E i \in 1..Len(lim) : bodies[b][i] = lim[i][2]

\* C1: after update(bodies) succeeds, getNeighborhood(b) holds exactly the other
\* bodies at distance < R from b, the set a brute-force scan gives, for every
\* in-bounds configuration, positions on the domain maximum included.
C1_NeighborhoodIsBruteForce ==
    (WellFormed /\ ~updateErr /\ hoodOf # 0 /\ ~hoodErr)
        => Range(hood) = BruteForce(hoodOf)

\* C2: every grid __init__ constructs has, on every axis, numD >= 1 and
\* boxSize >= R/2. (Stated for the grids built from a positive range and positive
\* domain sizes: the others are C3's, and the claim fails without them.)
C2_CellSizeAtLeastHalfR ==
    (gridState = "ok" /\ R > 0 /\ \A i \in 1..Len(lim) : lim[i][2] - lim[i][1] > 0) =>
        \A i \in 1..Len(lim) :
            /\ numD[i] >= 1
            /\ boxSize[i].den >= 1
            /\ 2 * boxSize[i].num >= R * boxSize[i].den

\* C3: constructing a grid with domain_size <= 0 on some axis or with R <= 0 fails:
\* no grid exists for such arguments.
C3_BadArgumentsFail ==
    gridState = "ok" => (R > 0 /\ \A i \in 1..Len(lim) : lim[i][2] - lim[i][1] > 0)

\* C4: update raises the out-of-bounds error if and only if some body has a
\* coordinate strictly below the axis minimum or strictly above the axis maximum.
C4_RaisesIffOutside ==
    WellFormed => (updateErr <=> \E b \in 1..Len(bodies) : Outside(b))

\* C4's case: an update that raised on its second body, after a first body that
\* lies exactly on the maximum was accepted
C4_Witness ==
    /\ WellFormed
    /\ updateErr
    /\ Len(bodies) = 2
    /\ AtMax(1) /\ ~Outside(1)
    /\ Outside(2)

(***************************************************************************)
(* Claims about get_groups (checked under GroupSpec).                      *)
(***************************************************************************)
\* the IDs of the call and the bond relation of its dictionary
IDs == 0..(Len(bond_dict) - 1)
BondedTo(i) == Range(bond_dict[i + 1])

\* the IDs reachable from the set S along bonds
RECURSIVE Reach(_)
Reach(S) ==
    LET next == S \cup UNION {BondedTo(i) : i \in S}
    IN IF next = S THEN S ELSE Reach(next)
Connected(i, j) == j \in Reach({i})

\* the group numbers that hold an ID
GroupsOf(i) == {g \in 1..Len(G) : In(i, G[g])}
Occurrences(i, grp) == Cardinality({k \in 1..Len(grp) : grp[k] = i})

\* C5: get_groups returns a partition of the IDs: every ID is in a group, none in
\* two groups or twice in one, two IDs of one group are connected through bonds
\* and two IDs of different groups are not.
C5_GroupsPartition ==
    groupState = "done" =>
        /\ UNION {Range(G[g]) : g \in 1..Len(G)} = IDs
        /\ \A i \in IDs : Cardinality(GroupsOf(i)) = 1
        /\ \A g \in 1..Len(G) : \A i \in Range(G[g]) : Occurrences(i, G[g]) = 1
        /\ \A i, j \in IDs : (GroupsOf(i) = GroupsOf(j)) <=> Connected(i, j)


(***************************************************************************)
(* Claims about ClusterInfo (checked under InfoSpec).                      *)
(***************************************************************************)
\* the observer holds a name other than "num_bodies" and "positions"
BadObserver == \E obs \in observable_set : obs \notin {"num_bodies", "positions"}

\* what a failed snapshot must leave alone
RecordUnchanged ==
    UNCHANGED <<stored_data, last_updated, has_parent, from_monomer, to_monomer>>

\* C6: once kill(f) has been called, is_dead() is true and stays true,
\* get_lifetime() is f minus the birth frame (f the frame of the latest kill), and
\* every later update_data call, with any frame number, appends nothing to the
\* stored data and leaves the last-updated frame unchanged.
C6_KillFreezesUpdates ==
    /\ [](is_dead => get_lifetime = death_frame - birth_frame)
    /\ [][\A f \in Frames :
            kill(f) => (is_dead' /\ get_lifetime' = f - birth_frame /\ death_frame' = f)]_vars
    /\ [][is_dead => is_dead']_vars
    /\ [][\A c \in Clusters, f \in Frames, m \in MonomerFracs :
            (is_dead /\ update_data(c, f, m))
                => (stored_data' = stored_data /\ last_updated' = last_updated)]_vars

\* C6's case: update_data was called on a killed record whose last recorded frame
\* lies below the frame it died at
C6_Witness ==
    /\ infoState = "ok"
    /\ is_dead
    /\ lastOp = "update_data"
    /\ last_updated < death_frame
    /\ get_lifetime = death_frame - birth_frame
    /\ get_lifetime > 0

\* C7 as claimed: in every reachable state the length of the stored data is the
\* number of distinct, strictly increasing frame numbers passed to update_data
\* while alive, the construction frame counted.
C7_LengthIsFrameCount ==
    infoState = "ok" => Len(get_data) = passedCount

\* C7 as amended: the length of the stored data is that number, plus one once
\* set_parent has inserted the parent snapshot; and a call with a frame number
\* equal to or below the last recorded one appends nothing.
C7_LengthIsFrameCountPlusParent ==
    /\ [](infoState = "ok" =>
            Len(get_data) = passedCount + (IF has_parent THEN 1 ELSE 0))
    /\ [][\A c \in Clusters, f \in Frames, m \in MonomerFracs :
            (update_data(c, f, m) /\ f <= last_updated) => stored_data' = stored_data]_vars

\* C7's case: a record with a parent snapshot and two recorded frames, whose latest
\* call was an update_data
C7_Witness ==
    /\ infoState = "ok"
    /\ has_parent
    /\ passedCount = 2
    /\ Len(get_data) = 3
    /\ lastOp = "update_data"

\* C8: once killed, no later operation changes the death frame, the lifetime, the
\* stored data, the monomer-gain log or the monomer-loss log.
C8_ImmutableOnceKilled ==
    [][is_dead =>
        UNCHANGED <<death_frame, lifetime, stored_data, from_monomer, to_monomer>>]_vars

\* C9: set_parent takes effect only once: the first call inserts one snapshot of
\* the given cluster at position 0 and keeps the snapshots already stored in their
\* order after it; every later call leaves the stored data unchanged, whatever
\* update_data calls come between.
C9_ParentSetOnce ==
    /\ [][\A c \in Clusters :
            set_parent(c) =>
                IF ~has_parent /\ ~raised'
                THEN /\ has_parent'
                     /\ Len(stored_data') = Len(stored_data) + 1
                     /\ stored_data'[1].positions = <<c>>
                     /\ stored_data'[1].num_bodies = <<Len(c)>>
                     /\ \A k \in 1..Len(stored_data) : stored_data'[k + 1] = stored_data[k]
                ELSE stored_data' = stored_data /\ has_parent' = has_parent]_vars
    /\ [][has_parent => has_parent']_vars
    /\ [][\A c \in Clusters, f \in Frames, m \in MonomerFracs :
            (has_parent /\ update_data(c, f, m)) => stored_data'[1] = stored_data[1]]_vars

\* C9's case: set_parent was the latest call on a record that has its parent
\* snapshot in front of two recorded frames
C9_Witness ==
    /\ infoState = "ok"
    /\ has_parent
    /\ lastOp = "set_parent"
    /\ ~raised
    /\ Len(get_data) = 3
    /\ "monomer_fraction" \notin get_data[1].keys
    /\ "monomer_fraction" \in get_data[2].keys

\* C10 as claimed: with an unrecognized observable in the observer's set,
\* construction, update_data, set_parent, add_monomers and remove_monomers each end
\* in an error, and the record is unchanged on that error.
C10_EveryCallRaises ==
    [][BadObserver =>
        /\ \A c \in Clusters, f \in Frames, m \in MonomerFracs :
             NewClusterInfo(c, f, m) => (raised' /\ infoState' = "error")
        /\ \A c \in Clusters, f \in Frames, m \in MonomerFracs :
             update_data(c, f, m) => (raised' /\ RecordUnchanged)
        /\ \A c \in Clusters :
             set_parent(c) => (raised' /\ RecordUnchanged)
        /\ \A c \in Clusters, n \in MonomerCounts, m \in MonomerFracs :
             add_monomers(c, n, m) => (raised' /\ RecordUnchanged)
        /\ \A c \in Clusters, n \in MonomerCounts :
             remove_monomers(c, n) => (raised' /\ RecordUnchanged)]_vars

\* C10 as amended: with an unrecognized observable in the observer's set, every
\* call that computes a snapshot ends in an error and leaves the record unchanged:
\* construction, add_monomers and remove_monomers always, update_data when the frame
\* number is above the last-updated one and the record is alive, set_parent when no
\* parent is set; the update_data and set_parent calls that compute no snapshot
\* return without an error and change nothing.
C10_SnapshotCallsRaise ==
    [][BadObserver =>
        /\ \A c \in Clusters, f \in Frames, m \in MonomerFracs :
             NewClusterInfo(c, f, m) => (raised' /\ infoState' = "error")
        /\ \A c \in Clusters, f \in Frames, m \in MonomerFracs :
             update_data(c, f, m) =>
                ((raised' <=> (f > last_updated /\ ~is_dead)) /\ RecordUnchanged)
        /\ \A c \in Clusters :
             set_parent(c) => ((raised' <=> ~has_parent) /\ RecordUnchanged)
        /\ \A c \in Clusters, n \in MonomerCounts, m \in MonomerFracs :
             add_monomers(c, n, m) => (raised' /\ RecordUnchanged)
        /\ \A c \in Clusters, n \in MonomerCounts :
             remove_monomers(c, n) => (raised' /\ RecordUnchanged)]_vars

\* C10's case: an update_data call raised on a live record because the observer
\* holds "num_bonds"
C10_Witness ==
    /\ infoState = "ok"
    /\ BadObserver
    /\ lastOp = "update_data"
    /\ raised
    /\ ~is_dead
    /\ Len(get_data) >= 1

(***************************************************************************)
(* Claims about Cluster (checked under ClusterSpec).                       *)
(***************************************************************************)
\* every member body of cluster c carries c's ID and a back-reference to c
MembersCarry(c) ==
    \A b \in Range(c_bodies[c]) :
        body_cluster_id[b] = cluster_index[c] /\ body_cluster[b] = c

\* C11: after set_cluster_id(c) the cluster's ID is c and every member body carries
\* ID c with a back-reference to the cluster; after update(other) the cluster's
\* members are other's bodies, each carries this cluster's ID and back-reference,
\* and the cluster's ID is unchanged.
C11_IdWrittenBack ==
    /\ [][\A c \in ClusterRefs, id \in ClusterIds :
            set_cluster_id(c, id) =>
                /\ cluster_index'[c] = id
                /\ \A b \in Range(c_bodies'[c]) :
                      body_cluster_id'[b] = id /\ body_cluster'[b] = c]_vars
    /\ [][\A c, other \in ClusterRefs :
            update(c, other) =>
                /\ c_bodies'[c] = c_bodies[other]
                /\ \A b \in Range(c_bodies'[c]) :
                      body_cluster_id'[b] = cluster_index[c] /\ body_cluster'[b] = c
                /\ cluster_index'[c] = cluster_index[c]]_vars

\* C11's case: cluster 1, holding ID 1, has just taken over the bodies of cluster 2,
\* which holds ID 0, and those bodies now carry ID 1 and point at cluster 1
C11_Witness ==
    /\ lastCl = <<"update", 1, 2, -1>>
    /\ cluster_index[1] = 1
    /\ cluster_index[2] = 0
    /\ Len(c_bodies[1]) = 2
    /\ c_bodies[1] = c_bodies[2]
    /\ MembersCarry(1)

(***************************************************************************)
(* More claims about get_groups (checked under GroupSpec).                 *)
(***************************************************************************)
\* a textbook breadth-first traversal of the bond dictionary: `order` lists the
\* IDs discovered so far, the adjacency list of each is scanned in its given
\* order, and an ID not yet discovered goes to the end of the list
RECURSIVE AppendNew(_, _, _)
AppendNew(order, adj, k) ==
    IF k > Len(adj) THEN order
    ELSE AppendNew(IF In(adj[k], order) THEN order ELSE Append(order, adj[k]), adj, k + 1)

RECURSIVE BfsFrom(_, _)
BfsFrom(order, k) ==
    IF k > Len(order) THEN order
    ELSE BfsFrom(AppendNew(order, bond_dict[order[k] + 1], 1), k + 1)

DiscoveryOrder(i) == BfsFrom(<<i>>, 1)

\* the IDs of the groups before group number g
Earlier(g) == UNION {Range(G[h]) : h \in 1..(g - 1)}

\* C12: the groups get_groups returns come in a fixed order: the first group starts
\* with ID 0, each later group starts with the lowest ID that is in no earlier
\* group, and inside a group the IDs stand in breadth-first discovery order from
\* the group's first ID, each adjacency list scanned in its given order.
C12_DiscoveryOrder ==
    groupState = "done" =>
        /\ G[1][1] = 0
        /\ \A g \in 2..Len(G) :
              /\ G[g][1] \notin Earlier(g)
              /\ \A j \in 0..(G[g][1] - 1) : j \in Earlier(g)
        /\ \A g \in 1..Len(G) : G[g] = DiscoveryOrder(G[g][1])

\* C12's case: ID 0 is bonded to ID 2 only, so the first group is [0, 2] and a
\* second group starts at ID 1, the lowest ID left
C12_Witness ==
    /\ groupState = "done"
    /\ G = << <<0, 2>>, <<1>> >>

\* C13: get_groups has no failure mode on a well-formed input: for every bond
\* dictionary with keys 0..N-1 and symmetric values, N >= 0, the empty dictionary
\* included, the call returns and raises nothing.
C13_NeverRaises == groupState # "error"

(***************************************************************************)
(* More claims about the neighbor grid (checked under GridSpec).           *)
(***************************************************************************)
\* the cells that hold body b, and how often b stands in a cell
CellsOf(b) == {key \in DOMAIN map : In(b, map[key])}
TimesIn(b, key) == Cardinality({k \in 1..Len(map[key]) : map[key][k] = b})

\* the bodies the cells hold, taken together
Held == UNION {Range(map[key]) : key \in DOMAIN map}

\* C14: update rebuilds the map wholesale: after update(bodies) succeeds the cells
\* together hold exactly the bodies of this call, each body once and in the one
\* cell computed from its position, and nothing of an earlier call is left,
\* whatever updates came before.
C14_MapRebuilt ==
    (WellFormed /\ ~updateErr) =>
        /\ Held = 1..Len(bodies)
        /\ \A b \in 1..Len(bodies) :
              /\ CellsOf(b) = {convertPosToIndex(bodies[b])}
              /\ TimesIn(b, convertPosToIndex(bodies[b])) = 1
        /\ \A key \in DOMAIN map : Len(map[key]) >= 1

\* C14's case: an update of a map that held bodies succeeded with a single body,
\* in a grid of at least two cells
C14_Witness ==
    /\ WellFormed
    /\ ~updateErr
    /\ refilled
    /\ Len(bodies) = 1
    /\ numD[1] >= 2
    /\ Cardinality(DOMAIN map) = 1

\* C15: a grid update has no partial-success state: when update(bodies) raises the
\* out-of-bounds error, the map afterwards does not hold a strict, non-empty
\* subset of the bodies of the failed call.
C15_NoPartialMap ==
    (WellFormed /\ updateErr) => (Held = {} \/ Held = 1..Len(bodies))

(***************************************************************************)
(* More claims about ClusterInfo (checked under InfoSpec).                 *)
(***************************************************************************)
\* C16: every snapshot a ClusterInfo stores carries the monomer fraction: each
\* entry of the stored data, the parent snapshot included, and each snapshot of
\* the monomer-gain and monomer-loss logs has the key 'monomer_fraction'.
C16_EverySnapshotHasFraction ==
    infoState = "ok" =>
        /\ \A k \in 1..Len(get_data) : "monomer_fraction" \in get_data[k].keys
        /\ \A k \in 1..Len(get_monomer_gain_data) :
              "monomer_fraction" \in get_monomer_gain_data[k][1].keys
        /\ \A k \in 1..Len(get_monomer_loss_data) :
              "monomer_fraction" \in get_monomer_loss_data[k][1].keys

(***************************************************************************)
(* More claims about Cluster (checked under ClusterSpec).                  *)
(***************************************************************************)
\* C17: after a.steal_id(v), cluster a holds the ID v held before the call, cluster
\* v holds -1, and every member body of a carries a's new ID and a back-reference
\* to a, for any two clusters a and v, also when a body is a member of both.
C17_StolenIdOnMembers ==
    [][\A a, v \in ClusterRefs :
         (a # v /\ steal_id(a, v)) =>
            /\ cluster_index'[a] = cluster_index[v]
            /\ cluster_index'[v] = -1
            /\ \A b \in Range(c_bodies'[a]) :
                  body_cluster_id'[b] = cluster_index'[a] /\ body_cluster'[b] = a]_vars

(***************************************************************************)
(* Further claims about the neighbor grid (checked under GridSpec).        *)
(***************************************************************************)
\* C18: the list getNeighborhood(b) returns never holds b itself and holds no body
\* more than once, for every grid size, the grids with fewer than 5 cells on an
\* axis included, where several of the 5 offsets wrap to the same cell.
C18_NoSelfNoDuplicates ==
    (WellFormed /\ hoodOf # 0 /\ ~hoodErr) =>
        /\ ~In(hoodOf, hood)
        /\ \A k1, k2 \in 1..Len(hood) : k1 # k2 => hood[k1] # hood[k2]

\* C19: every body update accepts is stored under a cell key whose component on
\* each axis i lies in 0..numD[i]-1, a cell AdjacentBoxes can produce after its
\* modulo wrap; a body whose coordinate equals the axis maximum included.
C19_KeysInRange ==
    WellFormed =>
        \A key \in DOMAIN map : \A i \in 1..Len(lim) : key[i] \in 0..(numD[i] - 1)

(***************************************************************************)
(* A further claim about get_groups (checked under GroupSpec).             *)
(***************************************************************************)
\* C20: for every bond dictionary with keys 0..N-1, N >= 1, and symmetric values,
\* whether or not a body lists itself, the loop of get_groups ends, and when it
\* has ended every ID 0..N-1 stands in `searched` exactly once, so that the exit
\* test len(searched) == N is met only when every body has a group.
C20_SearchedOnce ==
    (groupState \in {"done", "error"} /\ Len(bond_dict) >= 1) =>
        /\ \A i \in IDs : Occurrences(i, searched) = 1
        /\ \A i \in IDs : to_group[i + 1] # -1

====
